---- MODULE Spec2Model ----
(***************************************************************************)
(* Computo documentation tooling: the example conformance pipeline.        *)
(*                                                                         *)
(*   docs/test-examples.py      ComputoTester.test_example, the batch loop *)
(*                              test_all_examples and main                 *)
(*   docs/validate-coverage.py  the operator probe, validate_coverage,     *)
(*                              print_report and main                      *)
(*   docs/extract-documented-ops.py  the documented operator list          *)
(*                                                                         *)
(* Text is a sequence of one-character strings.  A Python value is a       *)
(* record tagged by its type; json.loads and json.dumps are modelled as    *)
(* a parser and a serializer over text, so that what reaches a comparison  *)
(* is what the two conversions produce.                                    *)
(***************************************************************************)
EXTENDS Integers, Sequences, FiniteSets, TLC

(***************************************************************************)
(* Bounds of the model.                                                    *)
(***************************************************************************)
\* operators in a registry file
MaxOps == 2
\* examples in a registry file, all operators together
MaxExamples == 3
\* names in the operator list the interpreter prints
MaxNames == 3
\* inputs listed for one example
MaxInputs == 2
\* operators in a registry the indexes are generated from
MaxIndexOps == 3

(***************************************************************************)
(* Characters and text.                                                    *)
(***************************************************************************)
\* The characters in use, in code-point order (str comparison in Python
\* compares code points).
Ascii ==
    << "\n", " ", "!", "\"", "$", "%", "&", "*", "+", ",", "-", ".", "/",
       "0", "1", "2", "3", "4", "5", "6", "7", "8", "9", ":", "<", "=", ">",
       "A", "B", "C", "F", "M", "P", "S", "Z", "[", "]", "^", "_",
       "a", "b", "c", "d", "e", "f", "g", "h", "i", "j", "k", "l", "m", "n",
       "o", "p", "q", "r", "s", "t", "u", "v", "w", "x", "y", "z",
       "{", "|", "}", "~" >>

CodePoint(c) == CHOOSE i \in 1..Len(Ascii) : Ascii[i] = c

DigitChars == << "0", "1", "2", "3", "4", "5", "6", "7", "8", "9" >>

IsDigit(c) == \E i \in 1..Len(DigitChars) : DigitChars[i] = c

DigitValue(c) == (CHOOSE i \in 1..Len(DigitChars) : DigitChars[i] = c) - 1

IsSpace(c) == c \in {" ", "\n"}

\* str < str
StrLess(a, b) ==
    \/ /\ Len(a) < Len(b)
       /\ \A i \in 1..Len(a) : a[i] = b[i]
    \/ \E i \in 1..Len(a) :
          /\ i <= Len(b)
          /\ \A j \in 1..(i - 1) : a[j] = b[j]
          /\ CodePoint(a[i]) < CodePoint(b[i])

\* str.strip()
RECURSIVE LStrip(_)
LStrip(s) == IF s # << >> /\ IsSpace(Head(s)) THEN LStrip(Tail(s)) ELSE s

RECURSIVE RStrip(_)
RStrip(s) ==
    IF s # << >> /\ IsSpace(s[Len(s)]) THEN RStrip(SubSeq(s, 1, Len(s) - 1)) ELSE s

Strip(s) == RStrip(LStrip(s))

\* whether text t occurs in text s
Contains(s, t) ==
    \E i \in 1..(Len(s) - Len(t) + 1) : SubSeq(s, i, i + Len(t) - 1) = t

\* sorted(S) for a set S of str
RECURSIVE SortedStrs(_)
SortedStrs(S) ==
    IF S = {} THEN << >>
    ELSE LET m == CHOOSE x \in S : \A y \in S : x = y \/ StrLess(x, y)
         IN  << m >> \o SortedStrs(S \ {m})

ToSet(seq) == { seq[i] : i \in 1..Len(seq) }

(***************************************************************************)
(* Python values, as json.loads and yaml.safe_load produce them.           *)
(***************************************************************************)
\* None: JSON null, and what dict.get returns for a missing key
None == [t |-> "null"]
JBool(b) == [t |-> "bool", b |-> b]
JInt(n) == [t |-> "int", n |-> n]
\* a float n.frac, frac the digits repr() prints after the point
JFloat(n, frac) == [t |-> "float", n |-> n, frac |-> frac]
JStr(s) == [t |-> "str", s |-> s]
JArr(items) == [t |-> "arr", items |-> items]
\* a dict: its (key, value) pairs in insertion order, keys distinct
JObj(members) == [t |-> "obj", members |-> members]
\* a datetime.date, which yaml.safe_load builds from 2024-01-01 and the
\* json module cannot serialize
PyDate == [t |-> "date"]

(***************************************************************************)
(* json.dumps(value) and json.dumps(value, sort_keys=True): the default    *)
(* separators ", " and ": ".                                               *)
(***************************************************************************)
RECURSIVE Serializable(_)
Serializable(v) ==
    CASE v.t = "date" -> FALSE
      [] v.t = "arr" -> \A i \in 1..Len(v.items) : Serializable(v.items[i])
      [] v.t = "obj" -> \A i \in 1..Len(v.members) : Serializable(v.members[i][2])
      [] OTHER -> TRUE

\* the decimal digits of a natural number
RECURSIVE Digits(_)
Digits(n) ==
    IF n < 10 THEN << DigitChars[n + 1] >>
    ELSE Digits(n \div 10) \o << DigitChars[(n % 10) + 1] >>

\* the members of a dict ordered by key (sort_keys=True)
RECURSIVE SortMembers(_)
SortMembers(members) ==
    IF members = << >> THEN << >>
    ELSE LET idx == CHOOSE i \in 1..Len(members) :
                       \A j \in 1..Len(members) :
                          i = j \/ StrLess(members[i][1], members[j][1])
             rest == [ k \in 1..(Len(members) - 1) |->
                          IF k < idx THEN members[k] ELSE members[k + 1] ]
         IN  << members[idx] >> \o SortMembers(rest)

Quoted(s) == << "\"" >> \o s \o << "\"" >>

RECURSIVE Dumps(_, _)
RECURSIVE DumpItems(_, _)
RECURSIVE DumpMembers(_, _)
Dumps(v, sort_keys) ==
    CASE v.t = "null" -> << "n", "u", "l", "l" >>
      [] v.t = "bool" -> IF v.b THEN << "t", "r", "u", "e" >>
                                ELSE << "f", "a", "l", "s", "e" >>
      [] v.t = "int" -> Digits(v.n)
      [] v.t = "float" -> Digits(v.n) \o << "." >> \o v.frac
      [] v.t = "str" -> Quoted(v.s)
      [] v.t = "arr" -> << "[" >> \o DumpItems(v.items, sort_keys) \o << "]" >>
      [] v.t = "obj" ->
            << "{" >>
            \o DumpMembers(IF sort_keys THEN SortMembers(v.members)
                                        ELSE v.members, sort_keys)
            \o << "}" >>

DumpItems(items, sort_keys) ==
    IF items = << >> THEN << >>
    ELSE Dumps(Head(items), sort_keys)
         \o (IF Len(items) > 1 THEN << ",", " " >> ELSE << >>)
         \o DumpItems(Tail(items), sort_keys)

DumpMembers(members, sort_keys) ==
    IF members = << >> THEN << >>
    ELSE Quoted(Head(members)[1]) \o << ":", " " >>
         \o Dumps(Head(members)[2], sort_keys)
         \o (IF Len(members) > 1 THEN << ",", " " >> ELSE << >>)
         \o DumpMembers(Tail(members), sort_keys)

(***************************************************************************)
(* json.loads(text): one JSON value, white space allowed around it and     *)
(* between tokens; anything else raises json.JSONDecodeError.              *)
(***************************************************************************)
ParseFail == [ok |-> FALSE, v |-> None, i |-> 0]

ParseOk(v, i) == [ok |-> TRUE, v |-> v, i |-> i]

\* the character at position i, "" past the end
At(s, i) == IF i \in 1..Len(s) THEN s[i] ELSE ""

HasAt(s, i, t) == i + Len(t) - 1 <= Len(s) /\ SubSeq(s, i, i + Len(t) - 1) = t

RECURSIVE SkipWs(_, _)
SkipWs(s, i) == IF i <= Len(s) /\ IsSpace(s[i]) THEN SkipWs(s, i + 1) ELSE i

RECURSIVE DigitsEnd(_, _)
DigitsEnd(s, i) == IF i <= Len(s) /\ IsDigit(s[i]) THEN DigitsEnd(s, i + 1) ELSE i

RECURSIVE NumValue(_)
NumValue(ds) ==
    IF ds = << >> THEN 0
    ELSE 10 * NumValue(SubSeq(ds, 1, Len(ds) - 1)) + DigitValue(ds[Len(ds)])

\* the fraction digits float.__repr__ keeps: trailing zeros dropped, one kept
RECURSIVE ReprFrac(_)
ReprFrac(ds) ==
    IF Len(ds) > 1 /\ ds[Len(ds)] = "0" THEN ReprFrac(SubSeq(ds, 1, Len(ds) - 1))
    ELSE ds

\* a number at s[i], a digit: (0|[1-9][0-9]*)(\.[0-9]+)?
ParseNumber(s, i) ==
    LET e == IF s[i] = "0" THEN i + 1 ELSE DigitsEnd(s, i)
        n == NumValue(SubSeq(s, i, e - 1))
        f == DigitsEnd(s, e + 1)
    IN  IF At(s, e) = "." /\ f > e + 1
        THEN ParseOk(JFloat(n, ReprFrac(SubSeq(s, e + 1, f - 1))), f)
        ELSE ParseOk(JInt(n), e)

\* the position of the next double quote at or after i, 0 when there is none
RECURSIVE QuoteAt(_, _)
QuoteAt(s, i) ==
    IF i > Len(s) THEN 0 ELSE IF s[i] = "\"" THEN i ELSE QuoteAt(s, i + 1)

\* a string at s[i], a double quote; a raw newline inside it is rejected
ParseString(s, i) ==
    LET j == QuoteAt(s, i + 1)
    IN  IF j = 0 \/ \E k \in (i + 1)..(j - 1) : s[k] = "\n"
        THEN ParseFail
        ELSE ParseOk(JStr(SubSeq(s, i + 1, j - 1)), j + 1)

\* dict[key] = value: a repeated key keeps its place and takes the new value
Put(members, key, v) ==
    IF \E i \in 1..Len(members) : members[i][1] = key
    THEN [ i \in 1..Len(members) |->
              IF members[i][1] = key THEN << key, v >> ELSE members[i] ]
    ELSE Append(members, << key, v >>)

RECURSIVE ParseValue(_, _)
RECURSIVE ParseItems(_, _, _)
RECURSIVE ParseMembers(_, _, _)
ParseValue(s, i) ==
    LET c == At(s, i)
        j == SkipWs(s, i + 1)
    IN  CASE HasAt(s, i, << "n", "u", "l", "l" >>) -> ParseOk(None, i + 4)
          [] HasAt(s, i, << "t", "r", "u", "e" >>) -> ParseOk(JBool(TRUE), i + 4)
          [] HasAt(s, i, << "f", "a", "l", "s", "e" >>) -> ParseOk(JBool(FALSE), i + 5)
          [] c # "" /\ IsDigit(c) -> ParseNumber(s, i)
          [] c = "\"" -> ParseString(s, i)
          [] c = "[" -> IF At(s, j) = "]" THEN ParseOk(JArr(<< >>), j + 1)
                        ELSE ParseItems(s, j, << >>)
          [] c = "{" -> IF At(s, j) = "}" THEN ParseOk(JObj(<< >>), j + 1)
                        ELSE IF At(s, j) = "\"" THEN ParseMembers(s, j, << >>)
                        ELSE ParseFail
          [] OTHER -> ParseFail

ParseItems(s, i, acc) ==
    LET r == ParseValue(s, i)
        k == SkipWs(s, r.i)
    IN  IF ~r.ok THEN ParseFail
        ELSE IF At(s, k) = "]" THEN ParseOk(JArr(Append(acc, r.v)), k + 1)
        ELSE IF At(s, k) = ","
             THEN ParseItems(s, SkipWs(s, k + 1), Append(acc, r.v))
        ELSE ParseFail

ParseMembers(s, i, acc) ==
    LET key == ParseString(s, i)
        k == SkipWs(s, key.i)
        r == ParseValue(s, SkipWs(s, k + 1))
        m == SkipWs(s, r.i)
        n == SkipWs(s, m + 1)
    IN  IF ~key.ok \/ At(s, k) # ":" THEN ParseFail
        ELSE IF ~r.ok THEN ParseFail
        ELSE IF At(s, m) = "}" THEN ParseOk(JObj(Put(acc, key.v.s, r.v)), m + 1)
        ELSE IF At(s, m) = "," /\ At(s, n) = "\""
             THEN ParseMembers(s, n, Put(acc, key.v.s, r.v))
        ELSE ParseFail

Loads(s) ==
    LET r == ParseValue(s, SkipWs(s, 1))
    IN  IF r.ok /\ SkipWs(s, r.i) = Len(s) + 1 THEN r ELSE ParseFail

(***************************************************************************)
(* The world the two scripts run in.                                       *)
(*                                                                         *)
(* registry   docs/operators.yaml as yaml.safe_load returns it: Unparsable,*)
(*            or the operators in file order, each a name and its list of  *)
(*            examples.  An example is a dict: the keys it has, and the    *)
(*            values of "expression" (the script, stored as JSON text),    *)
(*            "inputs" and "result".                                       *)
(* env        for each example, what the machine does when it is run: the  *)
(*            temporary file whose creation or writing fails (fault), and  *)
(*            how the interpreter behaves on it (run).                     *)
(* binary_exists   whether ./build/computo is there when the tester is     *)
(*            constructed.                                                 *)
(* probe      what running the interpreter with --list-operators does.     *)
(***************************************************************************)
VARIABLES registry, env, binary_exists, probe

(***************************************************************************)
(* test-examples.py: the process state.                                    *)
(*                                                                         *)
(* pc            where the process is                                      *)
(* op_i, ex_i    the loop position: operator and example (1-based)         *)
(* total_tests, passed_tests, failed_tests   the counters                  *)
(* args          test_example's arguments                                  *)
(* temp_files    test_example's list of files to remove                    *)
(* cmd           the argument vector built so far                          *)
(* k             the index of the input being materialized                 *)
(* child         the interpreter child processes alive                     *)
(* result        the dict test_example returns                             *)
(* exit_code     << >> while running, << code >> once exited               *)
(* disk          the temporary files that exist                            *)
(* created       history: the files NamedTemporaryFile created for the     *)
(*               current example                                           *)
(* outcomes      history: for each example tallied, its position and       *)
(*               whether it was counted as passed                          *)
(* invoked       history: the positions of the examples subprocess.run     *)
(*               was called for, in the order of the calls                 *)
(***************************************************************************)
VARIABLES pc, op_i, ex_i, total_tests, passed_tests, failed_tests, args,
          temp_files, cmd, k, child, result, exit_code, disk, created, outcomes,
          invoked

(***************************************************************************)
(* validate-coverage.py: the process state.                                *)
(*                                                                         *)
(* cov_pc        where the process is                                      *)
(* implemented, documented   the two operator lists, as json.loads gave    *)
(*               them                                                      *)
(* coverage      the dict validate_coverage returned                       *)
(* cov_printed   whether print_report has printed the report               *)
(* cov_exit      << >> while running, << code >> once exited               *)
(***************************************************************************)
VARIABLES cov_pc, implemented, documented, coverage, cov_printed, cov_exit

(***************************************************************************)
(* generate-indexes.py and generate-reference.py: the process states.      *)
(*                                                                         *)
(* idx_pc        where generate-indexes.py is                              *)
(* alpha_content << >> until docs/alpha/index.md is written, then          *)
(*               << its content >>                                         *)
(* task_content  the same for docs/task/index.md                           *)
(* idx_exit      << >> while running, << code >> once exited               *)
(* ref_pc        where generate-reference.py is                            *)
(* ref_content   << >> until the reference document is emitted, then       *)
(*               << its content >>                                         *)
(* ref_exit      << >> while running, << code >> once exited               *)
(***************************************************************************)
VARIABLES idx_pc, alpha_content, task_content, idx_exit,
          ref_pc, ref_content, ref_exit

worldVars == << registry, env, binary_exists, probe >>

testVars ==
    << pc, op_i, ex_i, total_tests, passed_tests, failed_tests, args,
       temp_files, cmd, k, child, result, exit_code, disk, created, outcomes,
       invoked >>

covVars == << cov_pc, implemented, documented, coverage, cov_printed, cov_exit >>

idxVars ==
    << idx_pc, alpha_content, task_content, idx_exit,
       ref_pc, ref_content, ref_exit >>

vars == << worldVars, testVars, covVars, idxVars >>

Unparsable == [ok |-> FALSE, operators |-> << >>]

Parsed(ops) == [ok |-> TRUE, operators |-> ops]

\* dict.get(key): None for a missing key
Get(d, key) == IF key \in d.keys THEN d[key] ELSE None

(***************************************************************************)
(* ComputoTester.test_example                                              *)
(***************************************************************************)
TIMEOUT == 10

TExpected == << "E", "x", "p", "e", "c", "t", "e", "d", " " >>
TGot == << ",", " ", "g", "o", "t", " " >>
TInvalid == << "I", "n", "v", "a", "l", "i", "d", " ", "J", "S", "O", "N", " ", "o", "u", "t", "p", "u", "t", ":", " " >>
TTimeout == << "E", "x", "e", "c", "u", "t", "i", "o", "n", " ", "t", "i", "m", "e", "o", "u", "t" >>
TSetup == << "S", "e", "t", "u", "p", " ", "e", "r", "r", "o", "r", ":", " " >>
\* str(e) of the exceptions setup can raise
TOSError == << "O", "S", "E", "r", "r", "o", "r" >>
TTypeError == << "n", "o", "t", " ", "J", "S", "O", "N", " ", "s", "e", "r", "i", "a", "l", "i", "z", "a", "b", "l", "e" >>

Outcome(status, success, actual_result, error) ==
    [status |-> status, success |-> success, result |-> actual_result,
     error |-> error]

NoResult == Outcome("none", FALSE, None, None)

\* lines 80-83: any exception of the outer try block
SetupError(msg) == Outcome("SetupError", FALSE, None, JStr(TSetup \o msg))

\* Python's ==, numbers compared by value (6 == 6.0), and the same with the
\* int/float distinction kept; dicts compare without regard to key order
Frac(v) == IF v.t = "float" THEN v.frac ELSE << "0" >>

Lookup(obj, key) ==
    obj.members[CHOOSE i \in 1..Len(obj.members) : obj.members[i][1] = key][2]

Keys(obj) == { obj.members[i][1] : i \in 1..Len(obj.members) }

RECURSIVE ValueEq(_, _, _)
ValueEq(a, b, strict) ==
    CASE a.t \in {"int", "float"} /\ b.t \in {"int", "float"} ->
            a.n = b.n /\ Frac(a) = Frac(b) /\ (strict => a.t = b.t)
      [] a.t = "arr" /\ b.t = "arr" ->
            /\ Len(a.items) = Len(b.items)
            /\ \A i \in 1..Len(a.items) : ValueEq(a.items[i], b.items[i], strict)
      [] a.t = "obj" /\ b.t = "obj" ->
            /\ Keys(a) = Keys(b)
            /\ \A key \in Keys(a) : ValueEq(Lookup(a, key), Lookup(b, key), strict)
      [] OTHER -> a = b

\* Compare with the values compared by ==
Compare_ByValue(actual_result, expected_result) ==
    LET actual_json == Dumps(actual_result, TRUE)
        expected_json == Dumps(expected_result, TRUE)
    IN  IF expected_result # None /\ ~ValueEq(actual_result, expected_result, FALSE)
        THEN Outcome("Mismatch", FALSE, actual_result,
                     JStr(TExpected \o expected_json \o TGot \o actual_json))
        ELSE Outcome("Pass", TRUE, actual_result, None)

\* Compare without the test for None
Compare_Always(actual_result, expected_result) ==
    LET actual_json == Dumps(actual_result, TRUE)
        expected_json == Dumps(expected_result, TRUE)
    IN  IF actual_json # expected_json
        THEN Outcome("Mismatch", FALSE, actual_result,
                     JStr(TExpected \o expected_json \o TGot \o actual_json))
        ELSE Outcome("Pass", TRUE, actual_result, None)

\* lines 58-65: the comparison with the expected result
Compare(actual_result, expected_result) ==
    LET actual_json == Dumps(actual_result, TRUE)
        expected_json == Dumps(expected_result, TRUE)
    IN  IF expected_result # None /\ actual_json # expected_json
        THEN Outcome("Mismatch", FALSE, actual_result,
                     JStr(TExpected \o expected_json \o TGot \o actual_json))
        ELSE Outcome("Pass", TRUE, actual_result, None)

\* Classify with the output looked at before the return code
Classify_StdoutFirst(returncode, stdout, stderr, expected_result) ==
    LET parsed == Loads(Strip(stdout))
    IN  IF parsed.ok THEN Compare(parsed.v, expected_result)
        ELSE IF returncode = 0
             THEN Outcome("MalformedOutput", FALSE, None, JStr(TInvalid \o stdout))
        ELSE Outcome("RuntimeError", FALSE, None, JStr(Strip(stderr)))

\* Classify with empty output taken for "no result"
Classify_EmptyPass(returncode, stdout, stderr, expected_result) ==
    LET parsed == Loads(Strip(stdout))
    IN  IF returncode = 0
        THEN IF parsed.ok THEN Compare(parsed.v, expected_result)
             ELSE IF Strip(stdout) = << >> THEN Outcome("Pass", TRUE, None, None)
             ELSE Outcome("MalformedOutput", FALSE, None, JStr(TInvalid \o stdout))
        ELSE Outcome("RuntimeError", FALSE, None, JStr(Strip(stderr)))

\* lines 51-73: a completed child, by return code and output
Classify(returncode, stdout, stderr, expected_result) ==
    LET parsed == Loads(Strip(stdout))
    IN  IF returncode = 0
        THEN IF parsed.ok THEN Compare(parsed.v, expected_result)
             ELSE Outcome("MalformedOutput", FALSE, None, JStr(TInvalid \o stdout))
        ELSE Outcome("RuntimeError", FALSE, None, JStr(Strip(stderr)))

\* lines 75-78: subprocess.TimeoutExpired
TimedOut == Outcome("Timeout", FALSE, None, JStr(TTimeout))

\* the example at the loop position, and what the machine does on it
Example == registry.operators[op_i].examples[ex_i]

Env == env[op_i][ex_i]

\* a temporary file of the current example: f = 0 the script, f >= 1 the
\* f-th input
TempName(f) == [op |-> op_i, ex |-> ex_i, f |-> f]

Faulty(f, phase) == Env.fault = [f |-> f, phase |-> phase]

NoFault == [f |-> 0, phase |-> "none"]

\* the inputs still to materialize
MoreInputs == args.inputs # None /\ k <= Len(args.inputs.items)

\* the first loop position at or after (o, e) that holds an example; the
\* operator index is past the end when there is none
RECURSIVE Position(_, _)
Position(o, e) ==
    IF o > Len(registry.operators) THEN << o, 1 >>
    ELSE IF e <= Len(registry.operators[o].examples) THEN << o, e >>
    ELSE Position(o + 1, 1)

NoArgs == [expression |-> None, inputs |-> None, expected_result |-> None]

\* lines 104-116: load the registry, construct the tester (lines 16-19),
\* zero the counters; either may raise, which lines 164-166 turn into
\* False and main into exit status 1
Start ==
    /\ pc = "main"
    /\ IF registry.ok /\ binary_exists
       THEN /\ pc' = "loop"
            /\ op_i' = Position(1, 1)[1]
            /\ ex_i' = Position(1, 1)[2]
            /\ exit_code' = exit_code
       ELSE /\ pc' = "exit"
            /\ exit_code' = << 1 >>
            /\ UNCHANGED << op_i, ex_i >>
    /\ UNCHANGED << total_tests, passed_tests, failed_tests, args, temp_files,
                    cmd, k, child, result, disk, created, outcomes, invoked >>
    /\ UNCHANGED << worldVars, covVars, idxVars >>

\* lines 123-131 and 26: count the example, decode its expression, read its
\* inputs and result, enter test_example
BeginExample ==
    /\ pc = "loop"
    /\ op_i <= Len(registry.operators)
    /\ Loads(Example.expression).ok
    /\ total_tests' = total_tests + 1
    /\ args' = [expression |-> Loads(Example.expression).v,
                inputs |-> Get(Example, "inputs"),
                expected_result |-> Get(Example, "result")]
    /\ temp_files' = << >>
    /\ created' = {}
    /\ pc' = "te_script"
    /\ UNCHANGED << op_i, ex_i, passed_tests, failed_tests, cmd, k, child,
                    result, exit_code, disk, outcomes, invoked >>
    /\ UNCHANGED << worldVars, covVars, idxVars >>

\* lines 124-127 and 164-166, 179-180: json.loads of the stored expression
\* raises outside test_example; the batch's own handler returns False
AbortOnExpression ==
    /\ pc = "loop"
    /\ op_i <= Len(registry.operators)
    /\ ~Loads(Example.expression).ok
    /\ total_tests' = total_tests + 1
    /\ pc' = "exit"
    /\ exit_code' = << 1 >>
    /\ UNCHANGED << op_i, ex_i, passed_tests, failed_tests, args, temp_files,
                    cmd, k, child, result, disk, created, outcomes, invoked >>
    /\ UNCHANGED << worldVars, covVars, idxVars >>

\* the exception path of lines 28-46 and 80-83
RaiseSetupError(msg) ==
    /\ result' = SetupError(msg)
    /\ pc' = "te_finally"

\* line 30: NamedTemporaryFile(delete=False) for the script
CreateScriptFile ==
    /\ pc = "te_script"
    /\ IF Faulty(0, "create")
       THEN /\ RaiseSetupError(TOSError)
            /\ UNCHANGED << disk, created >>
       ELSE /\ disk' = disk \cup {TempName(0)}
            /\ created' = created \cup {TempName(0)}
            /\ pc' = "te_dump_script"
            /\ result' = result
    /\ UNCHANGED << op_i, ex_i, total_tests, passed_tests, failed_tests, args,
                    temp_files, cmd, k, child, exit_code, outcomes, invoked >>
    /\ UNCHANGED << worldVars, covVars, idxVars >>

\* lines 31-36: write the script, close the file, record its name, start
\* the argument vector
WriteScriptFile ==
    /\ pc = "te_dump_script"
    /\ IF ~Serializable(args.expression)
       THEN /\ RaiseSetupError(TTypeError)
            /\ UNCHANGED << temp_files, cmd, k >>
       ELSE IF Faulty(0, "write")
       THEN /\ RaiseSetupError(TOSError)
            /\ UNCHANGED << temp_files, cmd, k >>
       ELSE /\ temp_files' = Append(temp_files, TempName(0))
            /\ cmd' = << "./build/computo", "--script", TempName(0) >>
            /\ k' = 1
            /\ pc' = "te_inputs"
            /\ result' = result
    /\ UNCHANGED << op_i, ex_i, total_tests, passed_tests, failed_tests, args,
                    child, exit_code, disk, created, outcomes, invoked >>
    /\ UNCHANGED << worldVars, covVars, idxVars >>

\* lines 39-41: NamedTemporaryFile(delete=False) for the next input
CreateInputFile ==
    /\ pc = "te_inputs"
    /\ MoreInputs
    /\ IF Faulty(k, "create")
       THEN /\ RaiseSetupError(TOSError)
            /\ UNCHANGED << disk, created >>
       ELSE /\ disk' = disk \cup {TempName(k)}
            /\ created' = created \cup {TempName(k)}
            /\ pc' = "te_dump_input"
            /\ result' = result
    /\ UNCHANGED << op_i, ex_i, total_tests, passed_tests, failed_tests, args,
                    temp_files, cmd, k, child, exit_code, outcomes, invoked >>
    /\ UNCHANGED << worldVars, covVars, idxVars >>

\* lines 42-45: write the input, close the file, record its name, add it to
\* the argument vector
WriteInputFile ==
    /\ pc = "te_dump_input"
    /\ IF ~Serializable(args.inputs.items[k])
       THEN /\ RaiseSetupError(TTypeError)
            /\ UNCHANGED << temp_files, cmd, k >>
       ELSE IF Faulty(k, "write")
       THEN /\ RaiseSetupError(TOSError)
            /\ UNCHANGED << temp_files, cmd, k >>
       ELSE /\ temp_files' = Append(temp_files, TempName(k))
            /\ cmd' = Append(cmd, TempName(k))
            /\ k' = k + 1
            /\ pc' = "te_inputs"
            /\ result' = result
    /\ UNCHANGED << op_i, ex_i, total_tests, passed_tests, failed_tests, args,
                    child, exit_code, disk, created, outcomes, invoked >>
    /\ UNCHANGED << worldVars, covVars, idxVars >>

\* line 49: subprocess.run starts the interpreter, or raises OSError
\* (FileNotFoundError when ./build/computo is not there any more); lines
\* 80-83 catch it as any other exception of the example
SpawnChild ==
    /\ pc = "te_inputs"
    /\ ~MoreInputs
    /\ invoked' = Append(invoked, << op_i, ex_i >>)
    /\ IF Env.run.spawn
       THEN /\ child' = child \cup {cmd}
            /\ pc' = "te_wait"
            /\ result' = result
       ELSE /\ RaiseSetupError(TOSError)
            /\ child' = child
    /\ UNCHANGED << op_i, ex_i, total_tests, passed_tests, failed_tests, args,
                    temp_files, cmd, k, exit_code, disk, created, outcomes >>
    /\ UNCHANGED << worldVars, covVars, idxVars >>

\* lines 49-73: the child exits within the timeout
ChildExits ==
    /\ pc = "te_wait"
    /\ Env.run.seconds <= TIMEOUT
    /\ result' = Classify(Env.run.returncode, Env.run.stdout, Env.run.stderr,
                          args.expected_result)
    /\ child' = {}
    /\ pc' = "te_finally"
    /\ UNCHANGED << op_i, ex_i, total_tests, passed_tests, failed_tests, args,
                    temp_files, cmd, k, exit_code, disk, created, outcomes, invoked >>
    /\ UNCHANGED << worldVars, covVars, idxVars >>

\* ChildTimesOut with the output captured so far classified as if the child
\* had exited
ChildTimesOut_Classifies ==
    /\ pc = "te_wait"
    /\ Env.run.seconds > TIMEOUT
    /\ result' = Classify(Env.run.returncode, Env.run.stdout, Env.run.stderr,
                          args.expected_result)
    /\ child' = {}
    /\ pc' = "te_finally"
    /\ UNCHANGED << op_i, ex_i, total_tests, passed_tests, failed_tests, args,
                    temp_files, cmd, k, exit_code, disk, created, outcomes, invoked >>
    /\ UNCHANGED << worldVars, covVars, idxVars >>

\* lines 49 and 75-78: the child is still running after TIMEOUT seconds;
\* subprocess.run kills it and raises TimeoutExpired
ChildTimesOut ==
    /\ pc = "te_wait"
    /\ Env.run.seconds > TIMEOUT
    /\ result' = TimedOut
    /\ child' = {}
    /\ pc' = "te_finally"
    /\ UNCHANGED << op_i, ex_i, total_tests, passed_tests, failed_tests, args,
                    temp_files, cmd, k, exit_code, disk, created, outcomes, invoked >>
    /\ UNCHANGED << worldVars, covVars, idxVars >>

\* lines 85-97: unlink every recorded file, return the dict; unlinking a
\* file this call wrote and closed succeeds (an OSError would be ignored)
Cleanup ==
    /\ pc = "te_finally"
    /\ disk' = disk \ ToSet(temp_files)
    /\ pc' = "te_return"
    /\ UNCHANGED << op_i, ex_i, total_tests, passed_tests, failed_tests, args,
                    temp_files, cmd, k, child, result, exit_code, created,
                    outcomes, invoked >>
    /\ UNCHANGED << worldVars, covVars, idxVars >>

\* Tally that leaves a failed example out of the counters
Tally_DropsFailure ==
    /\ pc = "te_return"
    /\ IF result.success
       THEN /\ passed_tests' = passed_tests + 1
            /\ failed_tests' = failed_tests
       ELSE /\ failed_tests' = failed_tests
            /\ passed_tests' = passed_tests
    /\ outcomes' = Append(outcomes, [op |-> op_i, ex |-> ex_i,
                                     passed |-> result.success])
    /\ op_i' = Position(op_i, ex_i + 1)[1]
    /\ ex_i' = Position(op_i, ex_i + 1)[2]
    /\ args' = NoArgs
    /\ temp_files' = << >>
    /\ cmd' = << >>
    /\ k' = 1
    /\ result' = NoResult
    /\ created' = {}
    /\ pc' = "loop"
    /\ UNCHANGED << total_tests, child, exit_code, disk, invoked >>
    /\ UNCHANGED << worldVars, covVars, idxVars >>

\* lines 133-152: count the result as passed or failed, go to the next
\* example
Tally ==
    /\ pc = "te_return"
    /\ IF result.success
       THEN /\ passed_tests' = passed_tests + 1
            /\ failed_tests' = failed_tests
       ELSE /\ failed_tests' = failed_tests + 1
            /\ passed_tests' = passed_tests
    /\ outcomes' = Append(outcomes, [op |-> op_i, ex |-> ex_i,
                                     passed |-> result.success])
    /\ op_i' = Position(op_i, ex_i + 1)[1]
    /\ ex_i' = Position(op_i, ex_i + 1)[2]
    /\ args' = NoArgs
    /\ temp_files' = << >>
    /\ cmd' = << >>
    /\ k' = 1
    /\ result' = NoResult
    /\ created' = {}
    /\ pc' = "loop"
    /\ UNCHANGED << total_tests, child, exit_code, disk, invoked >>
    /\ UNCHANGED << worldVars, covVars, idxVars >>

\* Report with the exit status 0 whatever the counters say
Report_AlwaysZero ==
    /\ pc = "loop"
    /\ op_i > Len(registry.operators)
    /\ exit_code' = << 0 >>
    /\ pc' = "exit"
    /\ UNCHANGED << op_i, ex_i, total_tests, passed_tests, failed_tests, args,
                    temp_files, cmd, k, child, result, disk, created, outcomes, invoked >>
    /\ UNCHANGED << worldVars, covVars, idxVars >>

\* lines 154-162 and 179-180: the summary, the return value failed_tests == 0,
\* and main's exit status
Report ==
    /\ pc = "loop"
    /\ op_i > Len(registry.operators)
    /\ exit_code' = IF failed_tests = 0 THEN << 0 >> ELSE << 1 >>
    /\ pc' = "exit"
    /\ UNCHANGED << op_i, ex_i, total_tests, passed_tests, failed_tests, args,
                    temp_files, cmd, k, child, result, disk, created, outcomes, invoked >>
    /\ UNCHANGED << worldVars, covVars, idxVars >>

NextTest ==
    \/ Start
    \/ BeginExample
    \/ AbortOnExpression
    \/ CreateScriptFile
    \/ WriteScriptFile
    \/ CreateInputFile
    \/ WriteInputFile
    \/ SpawnChild
    \/ ChildExits
    \/ ChildTimesOut
    \/ Cleanup
    \/ Tally
    \/ Report

(***************************************************************************)
(* validate-coverage.py                                                    *)
(***************************************************************************)
\* what iterating a value yields: the items of a list, the characters of a
\* str, the keys of a dict
Elements(v) ==
    CASE v.t = "arr" -> v.items
      [] v.t = "str" -> [ i \in 1..Len(v.s) |-> JStr(<< v.s[i] >>) ]
      [] v.t = "obj" -> [ i \in 1..Len(v.members) |-> JStr(v.members[i][1]) ]
      [] OTHER -> << >>

\* set(v) raises TypeError unless v is iterable and its elements hashable
CanSet(v) ==
    /\ v.t \in {"arr", "str", "obj"}
    /\ \A i \in 1..Len(Elements(v)) : Elements(v)[i].t \notin {"arr", "obj"}

\* sorted(S) compares the elements pairwise; the operator lists enumerated
\* here hold names, and a set of at most one element needs no comparison
CanSort(S) == Cardinality(S) <= 1 \/ \A e \in S : e.t = "str"

Sorted(S) ==
    IF \A e \in S : e.t = "str"
    THEN LET names == SortedStrs({ e.s : e \in S })
         IN  [ i \in 1..Len(names) |-> JStr(names[i]) ]
    ELSE << CHOOSE e \in S : TRUE >>

\* validate_coverage with coverage_complete looking at missing_docs only
validate_coverage_OnlyMissing(impl, docd) ==
    LET implemented_set == ToSet(Elements(impl))
        documented_set == ToSet(Elements(docd))
        missing_docs == Sorted(implemented_set \ documented_set)
        extra_docs == Sorted(documented_set \ implemented_set)
    IN  [total_implemented |-> Len(Elements(impl)),
         total_documented |-> Len(Elements(docd)),
         missing_docs |-> missing_docs,
         extra_docs |-> extra_docs,
         coverage_complete |-> Len(missing_docs) = 0]

\* lines 30-44
validate_coverage(impl, docd) ==
    LET implemented_set == ToSet(Elements(impl))
        documented_set == ToSet(Elements(docd))
        missing_docs == Sorted(implemented_set \ documented_set)
        extra_docs == Sorted(documented_set \ implemented_set)
    IN  [total_implemented |-> Len(Elements(impl)),
         total_documented |-> Len(Elements(docd)),
         missing_docs |-> missing_docs,
         extra_docs |-> extra_docs,
         coverage_complete |-> Len(missing_docs) = 0 /\ Len(extra_docs) = 0]

\* whether validate_coverage returns rather than raising TypeError
CanValidate(impl, docd) ==
    /\ CanSet(impl)
    /\ CanSet(docd)
    /\ CanSort(ToSet(Elements(impl)) \ ToSet(Elements(docd)))
    /\ CanSort(ToSet(Elements(docd)) \ ToSet(Elements(impl)))

NoCoverage ==
    [total_implemented |-> 0, total_documented |-> 0, missing_docs |-> << >>,
     extra_docs |-> << >>, coverage_complete |-> FALSE]

\* lines 86-88: main's handler prints the error and exits with status 1
CovFail ==
    /\ cov_pc' = "exit"
    /\ cov_exit' = << 1 >>

\* lines 11-18 and 74: run the interpreter with --list-operators and parse
\* its output
GetImplemented ==
    /\ cov_pc = "main"
    /\ LET parsed == Loads(Strip(probe.stdout))
       IN  IF probe.found /\ probe.returncode = 0 /\ parsed.ok
           THEN /\ implemented' = parsed.v
                /\ cov_pc' = "documented"
                /\ cov_exit' = cov_exit
           ELSE /\ CovFail
                /\ implemented' = implemented
    /\ UNCHANGED << documented, coverage, cov_printed >>
    /\ UNCHANGED << worldVars, testVars, idxVars >>

\* extract-documented-ops.py lines 11-29: the sorted operator names, printed
\* as JSON
ExtractOutput ==
    LET names == SortedStrs({ registry.operators[i].name :
                                 i \in 1..Len(registry.operators) })
    IN  Dumps(JArr([ i \in 1..Len(names) |-> JStr(names[i]) ]), FALSE)
        \o << "\n" >>

\* lines 20-28 and 75: run the extraction script and parse its output; the
\* script exits 1 when it cannot load the registry
GetDocumented ==
    /\ cov_pc = "documented"
    /\ IF registry.ok /\ Loads(Strip(ExtractOutput)).ok
       THEN /\ documented' = Loads(Strip(ExtractOutput)).v
            /\ cov_pc' = "validate"
            /\ cov_exit' = cov_exit
       ELSE /\ CovFail
            /\ documented' = documented
    /\ UNCHANGED << implemented, coverage, cov_printed >>
    /\ UNCHANGED << worldVars, testVars, idxVars >>

\* lines 77-84 and 46-69: validate, print the report, exit 0 when coverage
\* is complete and 1 otherwise
ValidateAndReport ==
    /\ cov_pc = "validate"
    /\ IF CanValidate(implemented, documented)
       THEN /\ coverage' = validate_coverage(implemented, documented)
            /\ cov_printed' = TRUE
            /\ cov_pc' = "exit"
            /\ cov_exit' = IF coverage'.coverage_complete THEN << 0 >> ELSE << 1 >>
       ELSE /\ CovFail
            /\ UNCHANGED << coverage, cov_printed >>
    /\ UNCHANGED << implemented, documented >>
    /\ UNCHANGED << worldVars, testVars, idxVars >>

NextCoverage ==
    \/ GetImplemented
    \/ GetDocumented
    \/ ValidateAndReport

(***************************************************************************)
(* generate-indexes.py: the alphabetical and the task-based index.  A      *)
(* content is kept as the list entries it renders, in their order; the     *)
(* fixed header lines and the description texts are left out.              *)
(***************************************************************************)

\* str.lower(), for the letters of Ascii
LowerChar(c) ==
    CASE c = "A" -> "a" [] c = "B" -> "b" [] c = "C" -> "c" [] c = "F" -> "f"
      [] c = "M" -> "m" [] c = "P" -> "p" [] c = "S" -> "s" [] c = "Z" -> "z"
      [] OTHER -> c

Lower(s) == [ i \in 1..Len(s) |-> LowerChar(s[i]) ]

\* str.replace(old, new) for a one-character old: every occurrence, left to
\* right
RECURSIVE Replace(_, _, _)
Replace(s, old, new) ==
    IF s = << >> THEN << >>
    ELSE (IF Head(s) = old THEN new ELSE << Head(s) >>)
         \o Replace(Tail(s), old, new)

\* the replacements of lines 59, 89 and 106, in the order of the chain
AnchorTable ==
    << << "$", << "d", "o", "l", "l", "a", "r", "-" >> >>, << "!", << "n", "o", "t", "-" >> >>, << "=", << "e", "q", "u", "a", "l" >> >>,
       << "<", << "l", "e", "s", "s" >> >>, << ">", << "g", "r", "e", "a", "t", "e", "r" >> >>, << "&", << "a", "n", "d" >> >>,
       << "|", << "o", "r" >> >>, << "%", << "m", "o", "d" >> >>, << "*", << "m", "u", "l" >> >>,
       << "+", << "a", "d", "d" >> >>, << "-", << "s", "u", "b" >> >>, << "/", << "d", "i", "v" >> >> >>

\* s.replace(..).replace(..)...: the first n replacements of the chain, each
\* applied to the result of the one before
RECURSIVE ReplaceChain(_, _)
ReplaceChain(s, n) ==
    IF n = 0 THEN s
    ELSE Replace(ReplaceChain(s, n - 1), AnchorTable[n][1], AnchorTable[n][2])

\* lines 59, 89, 106: the URL-friendly anchor
Anchor(op_name) == ReplaceChain(Lower(op_name), Len(AnchorTable))

\* lines 57-60, 87-90, 104-107: one list entry
Entry(op_name) == [name |-> op_name, anchor |-> Anchor(op_name)]

Entries(op_list) == [ i \in 1..Len(op_list) |-> Entry(op_list[i]) ]

\* lines 36-40
sort_key(op_name) ==
    IF op_name # << >>
       /\ Head(op_name) \in {"$", "!", "%", "*", "+", "-", "/", "<", "=", ">",
                             "&", "|"}
    THEN << << "0" >>, op_name >>
    ELSE << << "1" >>, Lower(op_name) >>

\* the order of the key tuples
KeyLess(a, b) == StrLess(a[1], b[1]) \/ (a[1] = b[1] /\ StrLess(a[2], b[2]))

\* sorted(.., key=sort_key) is stable: a name goes after the names before it
\* whose key is not greater
InsertByKey(sorted, x) ==
    LET p == Cardinality({ i \in 1..Len(sorted) :
                             ~KeyLess(sort_key(x), sort_key(sorted[i])) })
    IN  SubSeq(sorted, 1, p) \o << x >> \o SubSeq(sorted, p + 1, Len(sorted))

RECURSIVE SortedByKey(_)
SortedByKey(names) ==
    IF names = << >> THEN << >>
    ELSE InsertByKey(SortedByKey(SubSeq(names, 1, Len(names) - 1)),
                     names[Len(names)])

\* operators.keys(): the names of the registry, in the order of the file
OperatorKeys == [ i \in 1..Len(registry.operators) |-> registry.operators[i].name ]

\* lines 33-64
generate_alphabetical_index(names) ==
    [entries |-> Entries(SortedByKey(names)), total |-> Len(names)]

\* lines 17-31
get_operator_categories ==
    << [category |-> "Arithmetic",
        ops |-> << << "+" >>,
              << "-" >>,
              << "*" >>,
              << "/" >>,
              << "%" >> >>],
       [category |-> "Comparison",
        ops |-> << << ">" >>,
              << "<" >>,
              << ">", "=" >>,
              << "<", "=" >>,
              << "=", "=" >>,
              << "!", "=" >> >>],
       [category |-> "Logical",
        ops |-> << << "a", "n", "d" >>,
              << "o", "r" >>,
              << "n", "o", "t" >> >>],
       [category |-> "Data Access",
        ops |-> << << "$", "i", "n", "p", "u", "t" >>,
              << "$", "i", "n", "p", "u", "t", "s" >>,
              << "$" >> >>],
       [category |-> "Control Flow",
        ops |-> << << "i", "f" >>,
              << "l", "e", "t" >> >>],
       [category |-> "Lambda Functions",
        ops |-> << << "l", "a", "m", "b", "d", "a" >> >>],
       [category |-> "Array Operations",
        ops |-> << << "m", "a", "p" >>,
              << "f", "i", "l", "t", "e", "r" >>,
              << "r", "e", "d", "u", "c", "e" >>,
              << "c", "o", "u", "n", "t" >>,
              << "f", "i", "n", "d" >>,
              << "s", "o", "m", "e" >>,
              << "e", "v", "e", "r", "y" >>,
              << "a", "p", "p", "e", "n", "d" >>,
              << "s", "o", "r", "t" >>,
              << "r", "e", "v", "e", "r", "s", "e" >>,
              << "u", "n", "i", "q", "u", "e" >>,
              << "u", "n", "i", "q", "u", "e", "S", "o", "r", "t", "e", "d" >>,
              << "z", "i", "p" >> >>],
       [category |-> "Functional Programming",
        ops |-> << << "c", "a", "r" >>,
              << "c", "d", "r" >>,
              << "c", "o", "n", "s" >> >>],
       [category |-> "Object Operations",
        ops |-> << << "o", "b", "j" >>,
              << "k", "e", "y", "s" >>,
              << "v", "a", "l", "u", "e", "s" >>,
              << "o", "b", "j", "F", "r", "o", "m", "P", "a", "i", "r", "s" >>,
              << "p", "i", "c", "k" >>,
              << "o", "m", "i", "t" >>,
              << "m", "e", "r", "g", "e" >> >>],
       [category |-> "String Operations",
        ops |-> << << "j", "o", "i", "n" >>,
              << "s", "t", "r", "C", "o", "n", "c", "a", "t" >> >>],
       [category |-> "Utility",
        ops |-> << << "a", "p", "p", "r", "o", "x" >> >>] >>

\* lines 99-101, and generate-reference.py 96-98
Categorized(categories) ==
    UNION { ToSet(categories[i].ops) : i \in 1..Len(categories) }

\* lines 86-87, and generate-reference.py 86-87: the names of a category that
\* the registry has, in the order of the table
Present(op_list, names) == SelectSeq(op_list, LAMBDA n : n \in ToSet(names))

\* lines 66-109
generate_task_based_index(names) ==
    LET categories == get_operator_categories
        uncategorized == ToSet(names) \ Categorized(categories)
    IN  [ i \in 1..Len(categories) |->
            [category |-> categories[i].category,
             entries |-> Entries(Present(categories[i].ops, names))] ]
        \o (IF uncategorized # {}
            THEN << [category |-> "Other",
                     entries |-> Entries(SortedStrs(uncategorized))] >>
            ELSE << >>)

\* lines 113-115 and 135-137: load_operators, or the handler's exit status 1
LoadOperators ==
    /\ idx_pc = "main"
    /\ IF registry.ok
       THEN /\ idx_pc' = "alpha"
            /\ idx_exit' = idx_exit
       ELSE /\ idx_pc' = "exit"
            /\ idx_exit' = << 1 >>
    /\ UNCHANGED << alpha_content, task_content, ref_pc, ref_content, ref_exit >>
    /\ UNCHANGED << worldVars, testVars, covVars >>

\* lines 117-121
WriteAlphabetical ==
    /\ idx_pc = "alpha"
    /\ alpha_content' = << generate_alphabetical_index(OperatorKeys) >>
    /\ idx_pc' = "task"
    /\ UNCHANGED << task_content, idx_exit, ref_pc, ref_content, ref_exit >>
    /\ UNCHANGED << worldVars, testVars, covVars >>

\* lines 123-133
WriteTaskBased ==
    /\ idx_pc = "task"
    /\ task_content' = << generate_task_based_index(OperatorKeys) >>
    /\ idx_pc' = "exit"
    /\ idx_exit' = << 0 >>
    /\ UNCHANGED << alpha_content, ref_pc, ref_content, ref_exit >>
    /\ UNCHANGED << worldVars, testVars, covVars >>

(***************************************************************************)
(* generate-reference.py: the reference document, kept as its category     *)
(* sections and the operators each one renders, in their order.  A         *)
(* section's heading is its category followed by " Operators".             *)
(***************************************************************************)

\* generate-reference.py, lines 61-73
ReferenceCategories ==
    << [category |-> "Arithmetic",
        ops |-> << << "+" >>,
              << "-" >>,
              << "*" >>,
              << "/" >>,
              << "%" >> >>],
       [category |-> "Comparison",
        ops |-> << << ">" >>,
              << "<" >>,
              << ">", "=" >>,
              << "<", "=" >>,
              << "=", "=" >>,
              << "!", "=" >> >>],
       [category |-> "Logical",
        ops |-> << << "a", "n", "d" >>,
              << "o", "r" >>,
              << "n", "o", "t" >> >>],
       [category |-> "Data Access",
        ops |-> << << "$", "i", "n", "p", "u", "t" >>,
              << "$", "i", "n", "p", "u", "t", "s" >>,
              << "$" >>,
              << "l", "e", "t" >> >>],
       [category |-> "Control Flow",
        ops |-> << << "i", "f" >>,
              << "l", "a", "m", "b", "d", "a" >> >>],
       [category |-> "Object Operations",
        ops |-> << << "o", "b", "j" >>,
              << "k", "e", "y", "s" >>,
              << "v", "a", "l", "u", "e", "s" >>,
              << "o", "b", "j", "F", "r", "o", "m", "P", "a", "i", "r", "s" >>,
              << "p", "i", "c", "k" >>,
              << "o", "m", "i", "t" >>,
              << "m", "e", "r", "g", "e" >> >>],
       [category |-> "Array Operations",
        ops |-> << << "m", "a", "p" >>,
              << "f", "i", "l", "t", "e", "r" >>,
              << "r", "e", "d", "u", "c", "e" >>,
              << "c", "o", "u", "n", "t" >>,
              << "f", "i", "n", "d" >>,
              << "s", "o", "m", "e" >>,
              << "e", "v", "e", "r", "y" >> >>],
       [category |-> "Functional Programming",
        ops |-> << << "c", "a", "r" >>,
              << "c", "d", "r" >>,
              << "c", "o", "n", "s" >>,
              << "a", "p", "p", "e", "n", "d" >> >>],
       [category |-> "String Operations",
        ops |-> << << "s", "t", "r", "C", "o", "n", "c", "a", "t" >>,
              << "j", "o", "i", "n" >> >>],
       [category |-> "Array Manipulation",
        ops |-> << << "s", "o", "r", "t" >>,
              << "r", "e", "v", "e", "r", "s", "e" >>,
              << "u", "n", "i", "q", "u", "e" >>,
              << "u", "n", "i", "q", "u", "e", "S", "o", "r", "t", "e", "d" >>,
              << "z", "i", "p" >> >>],
       [category |-> "Utilities",
        ops |-> << << "a", "p", "p", "r", "o", "x" >> >>] >>

\* generate-reference.py, lines 53-115
generate_reference_documentation(names) ==
    LET categories == ReferenceCategories
        uncategorized == ToSet(names) \ Categorized(categories)
    IN  [ i \in 1..Len(categories) |->
            [category |-> categories[i].category,
             entries |-> Present(categories[i].ops, names)] ]
        \o (IF uncategorized # {}
            THEN << [category |-> "Other",
                     entries |-> SortedStrs(uncategorized)] >>
            ELSE << >>)

\* generate-reference.py, lines 126-139
GenerateReference ==
    /\ ref_pc = "main"
    /\ IF registry.ok
       THEN /\ ref_content' = << generate_reference_documentation(OperatorKeys) >>
            /\ ref_exit' = << 0 >>
       ELSE /\ ref_content' = ref_content
            /\ ref_exit' = << 1 >>
    /\ ref_pc' = "exit"
    /\ UNCHANGED << idx_pc, alpha_content, task_content, idx_exit >>
    /\ UNCHANGED << worldVars, testVars, covVars >>

NextIndexes ==
    \/ LoadOperators
    \/ WriteAlphabetical
    \/ WriteTaskBased
    \/ GenerateReference

InitIndexes ==
    /\ idx_pc = "main"
    /\ alpha_content = << >>
    /\ task_content = << >>
    /\ idx_exit = << >>
    /\ ref_pc = "main"
    /\ ref_content = << >>
    /\ ref_exit = << >>

(***************************************************************************)
(* Initial states: the worlds the scripts are run in.                      *)
(***************************************************************************)
SeqsUpTo(S, n) == UNION { [1..m -> S] : m \in 0..n }

\* operator names, as the registry and the interpreter spell them
OpNames ==
    << << "+" >>, << "m", "a", "p" >>, << "!", "=" >>,
       << "z", "i", "p" >>, << "$", "i", "n", "p", "u", "t" >> >>

\* stored expressions: ["+", 2, 3], and one cut short
ExprOk == << "[", "\"", "+", "\"", ",", " ", "2", ",", " ", "3", "]" >>
ExprBad == << "[", "\"", "+", "\"", ",", " ", "2", "," >>

ObjA == JObj(<< << << "a" >>, JInt(1) >> >>)
ObjAB == JObj(<< << << "a" >>, JInt(1) >>, << << "b" >>, JInt(2) >> >>)
ObjBA == JObj(<< << << "b" >>, JInt(2) >>, << << "a" >>, JInt(1) >> >>)

\* JSON values an example may expect and the interpreter may print
Values ==
    { None, JBool(FALSE), JBool(TRUE), JInt(0), JInt(5), JInt(6),
      JFloat(6, << "0" >>), JFloat(6, << "5" >>), JStr(<< >>), JStr(<< "a" >>),
      JArr(<< >>), JArr(<< JInt(6) >>), JArr(<< JFloat(6, << "0" >>) >>),
      JObj(<< >>), ObjAB, ObjBA,
      JObj(<< << << "a" >>, JInt(6) >> >>),
      JObj(<< << << "a" >>, JFloat(6, << "0" >>) >> >>) }

\* what the interpreter may write to standard output: a value as json.dumps
\* prints it, a value printed with other spacing, and text that is no JSON
Stdouts ==
    { Dumps(v, FALSE) \o << "\n" >> : v \in Values }
    \cup { << "6", ".", "0", "0", "\n" >>, << " ", "6" >>, << "[", " ", "6", " ", "]", "\n" >>,
           << "{", "\"", "b", "\"", ":", "2", ",", "\"", "a", "\"", ":", "1", "}" >>,
           << "{", "\"", "a", "\"", ":", "1", ",", "\"", "a", "\"", ":", "6", "}", "\n" >> }
    \cup { << >>, << "\n" >>, << "n", "u", "l" >>, << "6", " ", "6", "\n" >>, << "[", "6", "," >>,
           << "6", "." >>, << "{", "\"", "a", "\"", "}" >>, << "o", "o", "p", "s", "\n" >> }

Stderrs == { << >>, << " ", "b", "o", "o", "m", "\n" >> }

Run(spawn, seconds, returncode, stdout, stderr) ==
    [spawn |-> spawn, seconds |-> seconds, returncode |-> returncode,
     stdout |-> stdout, stderr |-> stderr]

\* subprocess.run raises, the child exits in a second with any status and
\* output, or the child is still running after 11 seconds
Runs ==
    { Run(FALSE, 0, 0, << >>, << >>) }
    \cup { Run(TRUE, 1, rc, out, err) :
              rc \in {0, 1}, out \in Stdouts, err \in Stderrs }
    \cup { Run(TRUE, 11, 0, out, << >>) : out \in { << >>, << "6", "\n" >> } }

FewRuns ==
    { Run(FALSE, 0, 0, << >>, << >>),
      Run(TRUE, 1, 0, << "6", "\n" >>, << >>),
      Run(TRUE, 1, 1, << >>, << " ", "b", "o", "o", "m", "\n" >>),
      Run(TRUE, 11, 0, << >>, << >>) }

Faults ==
    { NoFault }
    \cup { [f |-> f, phase |-> ph] : f \in 0..MaxInputs, ph \in {"create", "write"} }

\* an example of the registry: a dict with the keys it has
MkExample(expression, has_inputs, inputs, has_result, res) ==
    [keys |-> {"expression"}
              \cup (IF has_inputs THEN {"inputs"} ELSE {})
              \cup (IF has_result THEN {"result"} ELSE {}),
     expression |-> expression,
     inputs |-> IF has_inputs THEN inputs ELSE None,
     result |-> IF has_result THEN res ELSE None]

Case(ex, fault, run) == [ex |-> ex, env |-> [fault |-> fault, run |-> run]]

\* examples with any expected result, run with any interpreter behaviour
ClassifyCases ==
    { Case(MkExample(ExprOk, hi, JArr(<< ObjA >>), hr, res), NoFault, run) :
         hi \in BOOLEAN,
         hr \in {TRUE},
         res \in Values,
         run \in Runs }
    \cup
    { Case(MkExample(ExprOk, hi, JArr(<< ObjA >>), FALSE, None), NoFault, run) :
         hi \in BOOLEAN,
         run \in Runs }

\* examples with any list of inputs, materialized with any fault
MaterializeCases ==
    { Case(MkExample(expr, TRUE, JArr(ins), hr, JInt(6)), fault, run) :
         expr \in {ExprOk, ExprBad},
         ins \in SeqsUpTo({ObjA, PyDate}, MaxInputs),
         hr \in BOOLEAN,
         fault \in Faults,
         run \in FewRuns }

\* the examples of the batch runs: one that passes, one whose result is 6
\* where the interpreter prints 6.0, one whose expression is cut short, one
\* with a date among its inputs, one the interpreter hangs on
BatchCases ==
    { Case(MkExample(ExprOk, FALSE, None, FALSE, None), NoFault,
           Run(TRUE, 1, 0, << "5", "\n" >>, << >>)),
      Case(MkExample(ExprOk, FALSE, None, TRUE, JInt(6)), NoFault,
           Run(TRUE, 1, 0, << "6", ".", "0", "\n" >>, << >>)),
      Case(MkExample(ExprBad, FALSE, None, FALSE, None), NoFault,
           Run(TRUE, 1, 0, << "5", "\n" >>, << >>)),
      Case(MkExample(ExprOk, TRUE, JArr(<< ObjA, PyDate >>), FALSE, None), NoFault,
           Run(TRUE, 1, 0, << "5", "\n" >>, << >>)),
      Case(MkExample(ExprOk, FALSE, None, TRUE, JInt(5)), NoFault,
           Run(TRUE, 11, 0, << >>, << >>)),
      Case(MkExample(ExprOk, FALSE, None, FALSE, None), NoFault,
           Run(FALSE, 0, 0, << >>, << >>)) }

\* a registry and its environment from the cases of each operator
RegistryOf(opcases) ==
    Parsed([ i \in 1..Len(opcases) |->
               [name |-> opcases[i].name,
                examples |-> [ j \in 1..Len(opcases[i].cases) |->
                                  opcases[i].cases[j].ex ]] ])

EnvOf(opcases) ==
    [ i \in 1..Len(opcases) |->
        [ j \in 1..Len(opcases[i].cases) |-> opcases[i].cases[j].env ] ]

\* n operators, named in the order of OpNames, sharing out the cases of flat
\* at the cut points
Shared(flat, n, cut) ==
    [ i \in 1..n |->
        [name |-> OpNames[i],
         cases |-> SubSeq(flat, (IF i = 1 THEN 0 ELSE cut[i - 1]) + 1, cut[i])] ]

\* the registries of at most MaxOps operators and MaxExamples examples
BatchWorlds ==
    { Shared(w[1], Len(w[2]), w[2]) :
        w \in { x \in SeqsUpTo(BatchCases, MaxExamples)
                      \X SeqsUpTo(0..MaxExamples, MaxOps) :
                  /\ \A i \in 1..Len(x[2]) : x[2][i] <= Len(x[1])
                  /\ \A i \in 1..(Len(x[2]) - 1) : x[2][i] <= x[2][i + 1]
                  /\ IF Len(x[2]) = 0 THEN Len(x[1]) = 0
                     ELSE x[2][Len(x[2])] = Len(x[1]) } }

Probe(found, returncode, stdout) ==
    [found |-> found, returncode |-> returncode, stdout |-> stdout]

\* the interpreter printing a list of names
ProbeNames(names) ==
    Probe(TRUE, 0, Dumps(JArr([ i \in 1..Len(names) |-> JStr(names[i]) ]), FALSE)
                   \o << "\n" >>)

InitTest ==
    /\ pc = "main"
    /\ op_i = 1
    /\ ex_i = 1
    /\ total_tests = 0
    /\ passed_tests = 0
    /\ failed_tests = 0
    /\ args = NoArgs
    /\ temp_files = << >>
    /\ cmd = << >>
    /\ k = 1
    /\ child = {}
    /\ result = NoResult
    /\ exit_code = << >>
    /\ disk = {}
    /\ created = {}
    /\ outcomes = << >>
    /\ invoked = << >>

InitCoverage ==
    /\ cov_pc = "main"
    /\ implemented = None
    /\ documented = None
    /\ coverage = NoCoverage
    /\ cov_printed = FALSE
    /\ cov_exit = << >>

\* test-examples.py run on a registry of several examples
Init ==
    /\ \E w \in BatchWorlds :
          /\ registry \in {RegistryOf(w)} \cup (IF w = << >> THEN {Unparsable} ELSE {})
          /\ env = EnvOf(w)
    /\ binary_exists \in BOOLEAN
    /\ probe = ProbeNames(<< >>)
    /\ InitTest
    /\ InitCoverage
    /\ InitIndexes

Next == NextTest

Spec == Init /\ [][Next]_vars

\* test-examples.py run on a registry of one example
InitExample ==
    /\ \E c \in ClassifyCases \cup MaterializeCases :
          /\ registry = RegistryOf(<< [name |-> OpNames[1], cases |-> << c >>] >>)
          /\ env = EnvOf(<< [name |-> OpNames[1], cases |-> << c >>] >>)
    /\ binary_exists = TRUE
    /\ probe = ProbeNames(<< >>)
    /\ InitTest
    /\ InitCoverage
    /\ InitIndexes

SpecExample == InitExample /\ [][NextTest]_vars

(***************************************************************************)
(* validate-coverage.py run alone, on any registry of operator names and   *)
(* with any answer of the interpreter to --list-operators.                 *)
(***************************************************************************)
CovNames == { OpNames[i] : i \in 1..4 }

\* registries of at most MaxOps operators, in any order, without examples
NameRegistries ==
    { Parsed([ i \in 1..Len(names) |-> [name |-> names[i], examples |-> << >>] ]) :
        names \in { x \in SeqsUpTo(CovNames, MaxOps) :
                      \A i, j \in 1..Len(x) : i # j => x[i] # x[j] } }

\* the interpreter is missing, exits 1, prints no JSON, prints JSON that is
\* no list of names, or prints a list of at most MaxNames names
Probes ==
    { Probe(FALSE, 0, << >>),
      Probe(TRUE, 1, ProbeNames(<< OpNames[1] >>).stdout),
      Probe(TRUE, 0, << >>),
      Probe(TRUE, 0, << "[", "\"", "+", "\"", "," >>),
      Probe(TRUE, 0, << "\"", "m", "a", "p", "\"", "\n" >>),
      Probe(TRUE, 0, << "5", "\n" >>),
      Probe(TRUE, 0, << "[", "5", "]", "\n" >>),
      Probe(TRUE, 0, << "\"", "+", "\"", "\n" >>),
      Probe(TRUE, 0, << "{", "\"", "m", "a", "p", "\"", ":", " ", "1", "}", "\n" >>) }
    \cup { ProbeNames(names) : names \in SeqsUpTo(CovNames, MaxNames) }

InitCov ==
    /\ registry \in NameRegistries \cup {Unparsable}
    /\ env = << >>
    /\ binary_exists = TRUE
    /\ probe \in Probes
    /\ InitTest
    /\ InitCoverage
    /\ InitIndexes

SpecCoverage == InitCov /\ [][NextCoverage]_vars

(***************************************************************************)
(* Both scripts run on the same registry and interpreter, as two           *)
(* processes.                                                              *)
(***************************************************************************)
PipelineWorlds ==
    { Shared(w[1], Len(w[2]), w[2]) :
        w \in { x \in SeqsUpTo(BatchCases, 2) \X SeqsUpTo(0..2, 2) :
                  /\ \A i \in 1..Len(x[2]) : x[2][i] <= Len(x[1])
                  /\ \A i \in 1..(Len(x[2]) - 1) : x[2][i] <= x[2][i + 1]
                  /\ IF Len(x[2]) = 0 THEN Len(x[1]) = 0
                     ELSE x[2][Len(x[2])] = Len(x[1]) } }

PipelineProbes ==
    { Probe(FALSE, 0, << >>),
      Probe(TRUE, 0, << "o", "o", "p", "s", "\n" >>),
      ProbeNames(<< >>),
      ProbeNames(<< OpNames[1] >>),
      ProbeNames(<< OpNames[2], OpNames[1] >>),
      ProbeNames(<< OpNames[3] >>) }

InitPipeline ==
    /\ \E w \in PipelineWorlds :
          /\ registry \in {RegistryOf(w)} \cup (IF w = << >> THEN {Unparsable} ELSE {})
          /\ env = EnvOf(w)
    /\ binary_exists \in BOOLEAN
    /\ probe \in PipelineProbes
    /\ InitTest
    /\ InitCoverage
    /\ InitIndexes

NextPipeline == NextTest \/ NextCoverage

SpecPipeline == InitPipeline /\ [][NextPipeline]_vars

(***************************************************************************)
(* The two generators run on the same registry, as two processes.          *)
(***************************************************************************)
IndexNames ==
    { << "$", "i", "n", "p", "u", "t" >>, << "!", "=" >>, << "-" >>, << "l", "e", "t" >>, << "a", "p", "p", "e", "n", "d" >>, << "z", "i", "p" >>, << "M", "a", "x" >>,
      << "a", "b", "s" >>, << "~" >> }

\* the registries of at most MaxIndexOps operators, in any order of the file
IndexRegistries ==
    { Parsed([ i \in 1..Len(names) |-> [name |-> names[i], examples |-> << >>] ]) :
        names \in { x \in SeqsUpTo(IndexNames, MaxIndexOps) :
                      \A i, j \in 1..Len(x) : i # j => x[i] # x[j] } }

InitIdx ==
    /\ registry \in IndexRegistries \cup {Unparsable}
    /\ env = << >>
    /\ binary_exists = TRUE
    /\ probe = ProbeNames(<< >>)
    /\ InitTest
    /\ InitCoverage
    /\ InitIndexes

SpecIndexes == InitIdx /\ [][NextIndexes]_vars

(***************************************************************************)
(* Properties.                                                             *)
(***************************************************************************)
IsNameList(v) ==
    /\ v.t = "arr"
    /\ \A i \in 1..Len(v.items) : v.items[i].t = "str"

\* C1: whenever validate_coverage has been applied to the two operator
\* lists, missing_docs lists exactly the names implemented and not
\* documented, each once; extra_docs lists exactly the names documented and
\* not implemented, each once; coverage_complete is true exactly when both
\* are empty, which is exactly when the two lists hold the same set of
\* names.  On two lists of names the function returns (the report is
\* printed) rather than raising.
C1_CoverageIsSetDifference ==
    /\ (cov_pc = "exit" /\ cov_printed) =>
          LET I == ToSet(Elements(implemented))
              D == ToSet(Elements(documented))
          IN  /\ ToSet(coverage.missing_docs) = I \ D
              /\ Len(coverage.missing_docs) = Cardinality(I \ D)
              /\ ToSet(coverage.extra_docs) = D \ I
              /\ Len(coverage.extra_docs) = Cardinality(D \ I)
              /\ coverage.coverage_complete
                    = (coverage.missing_docs = << >> /\ coverage.extra_docs = << >>)
              /\ coverage.coverage_complete = (I = D)
    /\ (cov_pc = "exit" /\ IsNameList(implemented) /\ IsNameList(documented))
          => cov_printed

\* C1 witness: a report with names missing on both sides, computed from an
\* implemented list that repeats a name
C1_Witness ==
    /\ cov_pc = "exit"
    /\ cov_printed
    /\ IsNameList(implemented)
    /\ Len(implemented.items) > Cardinality(ToSet(implemented.items))
    /\ Len(coverage.missing_docs) >= 1
    /\ Len(coverage.extra_docs) >= 1
    /\ ~coverage.coverage_complete

\* test_example has returned for the example at the loop position
Returned == pc = "te_return"

\* every temporary file of the example was written and recorded, so the
\* interpreter was invoked
Materialized ==
    Len(temp_files) = 1 + (IF args.inputs = None THEN 0 ELSE Len(args.inputs.items))

\* the interpreter was started and exited within the timeout
Exited == Returned /\ Materialized /\ Env.run.spawn /\ Env.run.seconds <= TIMEOUT

\* what json.loads makes of the interpreter's output
Output == Loads(Strip(Env.run.stdout))

ExitedOk == Exited /\ Env.run.returncode = 0 /\ Output.ok

\* the example has a "result" entry
Supplied == "result" \in Example.keys

Canonical(v) == Dumps(v, TRUE)

\* C2: for an example that has an expected result (null, false, 0 and empty
\* containers included) and whose interpreter run exits 0 with output that
\* parses: the outcome is Pass exactly when the key-sorted serializations of
\* the actual and the expected value are equal, and is otherwise Mismatch
\* with an error detail that contains both serializations.
C2_PassIffCanonicalEqual ==
    (ExitedOk /\ Supplied) =>
        IF Canonical(Output.v) = Canonical(Example.result)
        THEN result.status = "Pass" /\ result.success
        ELSE /\ result.status = "Mismatch"
             /\ ~result.success
             /\ Contains(result.error.s, Canonical(Output.v))
             /\ Contains(result.error.s, Canonical(Example.result))

\* C3: when the expected value and the interpreter's output are equal as
\* values but differ in the type of a number (6 against 6.0, at top level
\* or inside arrays and objects), the outcome is Mismatch, never Pass.
C3_NumericRepresentationMismatch ==
    ( /\ ExitedOk
      /\ Supplied
      /\ ValueEq(Output.v, Example.result, FALSE)
      /\ ~ValueEq(Output.v, Example.result, TRUE) )
    => (result.status = "Mismatch" /\ ~result.success)

\* C3 witness: expected 6 and printed 6.0, or the reverse
C3_Witness ==
    /\ ExitedOk
    /\ Supplied
    /\ \/ Example.result = JInt(6) /\ Output.v = JFloat(6, << "0" >>)
       \/ Example.result = JFloat(6, << "0" >>) /\ Output.v = JInt(6)
    /\ result.status = "Mismatch"

\* C4: whenever the interpreter exits with a non-zero code the outcome is
\* RuntimeError: failed, the error detail the trimmed standard error, no
\* actual result; whatever is on standard output.
C4_NonZeroExitIsRuntimeError ==
    (Exited /\ Env.run.returncode # 0) =>
        result = Outcome("RuntimeError", FALSE, None, JStr(Strip(Env.run.stderr)))

\* C4 witness: exit code 1 with the expected value on standard output and
\* white space around the text on standard error
C4_Witness ==
    /\ Exited
    /\ Env.run.returncode # 0
    /\ Supplied
    /\ Output.ok
    /\ Canonical(Output.v) = Canonical(Example.result)
    /\ Strip(Env.run.stderr) # Env.run.stderr
    /\ result.status = "RuntimeError"

\* C5: whenever the interpreter exits 0 and its output does not parse as one
\* JSON value (empty output included), the outcome is MalformedOutput:
\* failed, the error detail containing the raw output, no actual result;
\* with or without an expected result.
C5_UnparsableOutputIsMalformed ==
    (Exited /\ Env.run.returncode = 0 /\ ~Output.ok) =>
        /\ result.status = "MalformedOutput"
        /\ ~result.success
        /\ result.result = None
        /\ result.error.t = "str"
        /\ Contains(result.error.s, Env.run.stdout)

\* C5 witness: exit code 0, nothing but white space printed, no expected
\* result
C5_Witness ==
    /\ Exited
    /\ Env.run.returncode = 0
    /\ Strip(Env.run.stdout) = << >>
    /\ ~Supplied
    /\ result.status = "MalformedOutput"

\* C6: for an example without an expected result, with or without inputs,
\* a run that exits 0 with output that parses yields Pass, the actual
\* result the parsed output, no error detail.
C6_NoExpectedAlwaysPasses ==
    (ExitedOk /\ ~Supplied) => result = Outcome("Pass", TRUE, Output.v, None)

\* C6 witness: an example with inputs and no expected result, the output a
\* value other than null
C6_Witness ==
    /\ ExitedOk
    /\ ~Supplied
    /\ "inputs" \in Example.keys
    /\ Output.v # None
    /\ result.status = "Pass"

\* C7: an invocation that runs longer than TIMEOUT seconds yields Timeout:
\* failed, the error detail the timeout text, no actual result; never Pass,
\* never RuntimeError, whatever the child had printed.
C7_TimeoutOutcome ==
    (Returned /\ Materialized /\ Env.run.spawn /\ Env.run.seconds > TIMEOUT) =>
        result = Outcome("Timeout", FALSE, None, JStr(TTimeout))

\* C7 witness: the child had printed the expected value when it was killed
C7_Witness ==
    /\ Returned
    /\ Materialized
    /\ Env.run.spawn
    /\ Env.run.seconds > TIMEOUT
    /\ Supplied
    /\ Output.ok
    /\ Canonical(Output.v) = Canonical(Example.result)
    /\ result.status = "Timeout"

\* C8: after test_example returns, none of the temporary files created for
\* the example is left on disk.
C8_NoTempFileRemains ==
    Returned => created \cap disk = {}

RECURSIVE CountExamples(_)
CountExamples(ops) ==
    IF ops = << >> THEN 0
    ELSE Len(Head(ops).examples) + CountExamples(Tail(ops))

\* C9: an error of a single example never aborts the batch: once the
\* registry is loaded and the tester constructed, the run ends only after
\* every example of the registry has been given an outcome and counted.
C9_EveryExampleCounted ==
    (pc = "exit" /\ registry.ok /\ binary_exists) =>
        /\ Len(outcomes) = CountExamples(registry.operators)
        /\ total_tests = CountExamples(registry.operators)
        /\ passed_tests + failed_tests = total_tests

\* the batch ran to its end and counted every example as passed
AllExamplesPass ==
    /\ registry.ok
    /\ binary_exists
    /\ Len(outcomes) = CountExamples(registry.operators)
    /\ \A i \in 1..Len(outcomes) : outcomes[i].passed

\* the interpreter's operator list and the registry's hold the same names
WorldCoverageComplete ==
    /\ probe.found
    /\ probe.returncode = 0
    /\ Loads(Strip(probe.stdout)).ok
    /\ registry.ok
    /\ LET impl == Loads(Strip(probe.stdout)).v
           docd == Loads(Strip(ExtractOutput)).v
       IN  /\ CanSet(impl)
           /\ ToSet(Elements(impl)) = ToSet(Elements(docd))

\* C10 as stated: a process exits 0 exactly when every example passes and
\* coverage is complete.
C10_ExitZeroIffAllPassAndCoverage ==
    /\ pc = "exit" =>
          (exit_code = << 0 >>) = (AllExamplesPass /\ WorldCoverageComplete)
    /\ cov_pc = "exit" =>
          (cov_exit = << 0 >>) = (AllExamplesPass /\ WorldCoverageComplete)

\* C10 amended: each script signals its own check.  test-examples.py exits 0
\* exactly when the batch ran to its end and every example was counted as
\* passed, and 1 otherwise; validate-coverage.py exits 0 exactly when both
\* operator lists were obtained and hold the same names, and 1 otherwise.
C10_EachScriptSignalsItsOwnCheck ==
    /\ pc = "exit" =>
          /\ exit_code \in { << 0 >>, << 1 >> }
          /\ (exit_code = << 0 >>) = AllExamplesPass
    /\ cov_pc = "exit" =>
          /\ cov_exit \in { << 0 >>, << 1 >> }
          /\ (cov_exit = << 0 >>) = WorldCoverageComplete
    /\ pc # "exit" => exit_code = << >>
    /\ cov_pc # "exit" => cov_exit = << >>

\* C10 witness: both scripts have exited on the same world, the examples
\* all passed and exit status 0, coverage incomplete and exit status 1
C10_Witness ==
    /\ pc = "exit"
    /\ cov_pc = "exit"
    /\ Len(outcomes) >= 1
    /\ exit_code = << 0 >>
    /\ cov_printed
    /\ cov_exit = << 1 >>

\* the interpreter is there, exits 0 and prints a JSON array of strings
ProbeIsNameList ==
    /\ probe.found
    /\ probe.returncode = 0
    /\ Loads(Strip(probe.stdout)).ok
    /\ IsNameList(Loads(Strip(probe.stdout)).v)

\* C11: the probe returns a list of names only when the interpreter printed
\* a JSON array of strings; when the interpreter is missing, exits non-zero
\* or prints anything else (a JSON string, number or object included), the
\* coverage run exits non-zero without printing a coverage report.
C11_ProbeErrorUnlessNameList ==
    /\ cov_pc \in {"documented", "validate"} => ProbeIsNameList
    /\ (cov_pc = "exit" /\ ~ProbeIsNameList) =>
          (cov_exit = << 1 >> /\ ~cov_printed)

\* example e of operator o reaches subprocess.run, and the interpreter
\* binary is not there to be run
FoundMissingAt(o, e) ==
    LET x == registry.operators[o].examples[e]
        v == env[o][e]
    IN  /\ Loads(x.expression).ok
        /\ v.fault = NoFault
        /\ x.inputs # None =>
              \A i \in 1..Len(x.inputs.items) : Serializable(x.inputs.items[i])
        /\ ~v.run.spawn

\* C12: a missing interpreter binary aborts the whole run: found missing at
\* start-up, no example is attempted and the run ends with exit status 1;
\* found missing when an example is invoked, that example is not recorded as
\* an individual outcome and no later example is attempted.
C12_MissingBinaryAbortsRun ==
    /\ (~binary_exists /\ pc # "main") =>
          (pc = "exit" /\ exit_code = << 1 >>
             /\ total_tests = 0 /\ outcomes = << >>)
    /\ \A i \in 1..Len(outcomes) :
          ~FoundMissingAt(outcomes[i].op, outcomes[i].ex)
    /\ pc \notin {"main", "exit"} =>
          \A o \in 1..Len(registry.operators) :
             \A e \in 1..Len(registry.operators[o].examples) :
                FoundMissingAt(o, e) => ~(o < op_i \/ (o = op_i /\ e < ex_i))

\* the list entries of the alphabetical index, of the categories of the
\* task-based index and of its Other bucket, once written
AlphaEntries ==
    IF alpha_content = << >> THEN {} ELSE ToSet(alpha_content[1].entries)

CategoryEntries ==
    IF task_content = << >> THEN {}
    ELSE UNION { ToSet(task_content[1][i].entries) :
                   i \in { j \in 1..Len(task_content[1]) :
                             task_content[1][j].category # "Other" } }

OtherEntries ==
    IF task_content = << >> THEN {}
    ELSE UNION { ToSet(task_content[1][i].entries) :
                   i \in { j \in 1..Len(task_content[1]) :
                             task_content[1][j].category = "Other" } }

\* the substitution of the table: each character of the lower-cased name
\* that the table has is replaced by its replacement, the others are kept
RECURSIVE TableSlug(_)
TableSlug(name) ==
    IF name = << >> THEN << >>
    ELSE LET c == LowerChar(Head(name))
             rows == { i \in 1..Len(AnchorTable) : AnchorTable[i][1] = c }
         IN  (IF rows = {} THEN << c >>
              ELSE AnchorTable[CHOOSE i \in rows : TRUE][2])
             \o TableSlug(Tail(name))

\* C13: the anchor of every entry is the lower-cased name with each table
\* character replaced by exactly its table replacement and the other
\* characters unchanged ('$input' gives 'dollar-input', '!=' gives
\* 'not-equal'), and a name has the same anchor in the alphabetical index,
\* in the categories of the task-based index and in its Other bucket.
C13_AnchorIsTableSubstitution ==
    /\ \A e \in AlphaEntries \cup CategoryEntries \cup OtherEntries :
          /\ e.anchor = TableSlug(e.name)
          /\ e.name = << "$", "i", "n", "p", "u", "t" >> => e.anchor = << "d", "o", "l", "l", "a", "r", "-", "i", "n", "p", "u", "t" >>
          /\ e.name = << "!", "=" >> => e.anchor = << "n", "o", "t", "-", "e", "q", "u", "a", "l" >>
    /\ \A e \in AlphaEntries : \A f \in CategoryEntries \cup OtherEntries :
          e.name = f.name => e.anchor = f.anchor

IsAlnum(c) ==
    \/ IsDigit(c)
    \/ CodePoint("A") <= CodePoint(c) /\ CodePoint(c) <= CodePoint("Z")
    \/ CodePoint("a") <= CodePoint(c) /\ CodePoint(c) <= CodePoint("z")

\* a name whose first character is a non-alphanumeric symbol
Symbolic(name) == name # << >> /\ ~IsAlnum(Head(name))

\* C14: in the alphabetical index every symbolic name is listed before every
\* alphabetic name, the alphabetic names are in case-insensitive alphabetical
\* order, and each operator of the registry is listed exactly once.
C14_SymbolsFirstThenAlphabetical ==
    alpha_content # << >> =>
       LET e == alpha_content[1].entries
       IN  /\ \A i, j \in 1..Len(e) :
                 (Symbolic(e[i].name) /\ ~Symbolic(e[j].name)) => i < j
           /\ \A i, j \in 1..Len(e) :
                 (i < j /\ ~Symbolic(e[i].name) /\ ~Symbolic(e[j].name))
                    => ~StrLess(Lower(e[j].name), Lower(e[i].name))
           /\ \A n \in ToSet(OperatorKeys) :
                 Cardinality({ i \in 1..Len(e) : e[i].name = n }) = 1
           /\ Len(e) = Len(OperatorKeys)

\* the category names of a content, in their order, without the Other bucket
CategoryNames(content) ==
    LET table == SelectSeq(content, LAMBDA sec : sec.category # "Other")
    IN  [ i \in 1..Len(table) |-> table[i].category ]

\* the categories that list a name in a content
TaskCategoriesOf(n) ==
    { task_content[1][i].category :
        i \in { j \in 1..Len(task_content[1]) :
                  \E x \in 1..Len(task_content[1][j].entries) :
                     task_content[1][j].entries[x].name = n } }

ReferenceCategoriesOf(n) ==
    { ref_content[1][i].category :
        i \in { j \in 1..Len(ref_content[1]) :
                  \E x \in 1..Len(ref_content[1][j].entries) :
                     ref_content[1][j].entries[x] = n } }

\* C15: the task-based index and the reference document have the same
\* ordered list of category names and put each operator into the same
\* category; in both, the names outside the table are in an Other bucket,
\* rendered last and sorted.
C15_SameCategoryTable ==
    (task_content # << >> /\ ref_content # << >>) =>
       /\ CategoryNames(task_content[1]) = CategoryNames(ref_content[1])
       /\ \A n \in ToSet(OperatorKeys) :
             TaskCategoriesOf(n) = ReferenceCategoriesOf(n)
       /\ \A i \in 1..Len(task_content[1]) :
             task_content[1][i].category = "Other" =>
                /\ i = Len(task_content[1])
                /\ LET names == [ x \in 1..Len(task_content[1][i].entries) |->
                                    task_content[1][i].entries[x].name ]
                   IN  names = SortedStrs(ToSet(names))
       /\ \A i \in 1..Len(ref_content[1]) :
             ref_content[1][i].category = "Other" =>
                /\ i = Len(ref_content[1])
                /\ ref_content[1][i].entries
                      = SortedStrs(ToSet(ref_content[1][i].entries))

\* the place of example e of operator o in the iteration over the registry
RECURSIVE ExamplesBefore(_)
ExamplesBefore(o) ==
    IF o = 1 THEN 0
    ELSE ExamplesBefore(o - 1) + Len(registry.operators[o - 1].examples)

Rank(o, e) == ExamplesBefore(o) + e

Completed ==
    /\ pc = "exit"
    /\ registry.ok
    /\ binary_exists
    /\ op_i > Len(registry.operators)

\* the examples tallied with the given outcome
Counted(passed) == Cardinality({ i \in 1..Len(outcomes) : outcomes[i].passed = passed })

\* C17: after each example has been processed total = passed + failed, and
\* each processed example has been counted in exactly one of passed and
\* failed, according to its outcome; at the end of a run that was not aborted
\* total is the number of examples of the registry; the success flag the run
\* reports is true if and only if failed = 0.
C17_CountersAndFlag ==
    /\ (pc = "loop" \/ Completed) => total_tests = passed_tests + failed_tests
    /\ passed_tests = Counted(TRUE)
    /\ failed_tests = Counted(FALSE)
    /\ Completed => total_tests = CountExamples(registry.operators)
    /\ pc = "exit" => (exit_code = << 0 >> <=> failed_tests = 0)

\* C17, amended: as above, with the flag of a run that was not aborted true
\* if and only if failed = 0, and the flag of an aborted run false whatever
\* the counters hold.
C17_CountersAndFlagWhenCompleted ==
    /\ (pc = "loop" \/ Completed) => total_tests = passed_tests + failed_tests
    /\ passed_tests = Counted(TRUE)
    /\ failed_tests = Counted(FALSE)
    /\ Completed => total_tests = CountExamples(registry.operators)
    /\ Completed => (exit_code = << 0 >> <=> failed_tests = 0)
    /\ (pc = "exit" /\ ~Completed) => exit_code = << 1 >>

\* a run that was not aborted ends with passed and failed examples counted
C17_Witness ==
    /\ Completed
    /\ passed_tests >= 1
    /\ failed_tests >= 1
    /\ total_tests = MaxExamples
    /\ exit_code = << 1 >>

====
